---- MODULE Spec2Model ----
(***************************************************************************)
(* Order creation, inventory reservation, cancellation and payment         *)
(* reconciliation of the B2B storefront, as a state machine over the       *)
(* rows of the relational store.                                           *)
(*                                                                         *)
(* Store semantics (PostgreSQL behind Prisma, no isolationLevel option is  *)
(* passed to $transaction, so READ COMMITTED):                             *)
(*   - a statement outside $transaction commits on its own;                *)
(*   - inside an interactive $transaction a SELECT (findFirst/findUnique)  *)
(*     takes no lock and sees the last committed row;                      *)
(*   - UPDATE .. SET quantity = quantity +/- n takes the row lock, waits   *)
(*     for a concurrent holder to commit or roll back, and then applies    *)
(*     the relative change to the latest committed value;                  *)
(*   - the writes of a transaction become visible at its commit and are    *)
(*     dropped when the callback throws.                                   *)
(* Each request in flight occupies one slot of Procs; req[r] holds the     *)
(* handler's position (pc) and its local variables.                        *)
(***************************************************************************)
EXTENDS Integers, Sequences, FiniteSets, TLC

\* ---------------------------------------------------------------- bounds
MaxOrders == 2      \* orders ever created
PayOrders == 1      \* orders ever created where the payment paths run
InitStock == 2      \* PLATFORM quantity of every product at start
MaxQty    == 2      \* largest quantity of one cart item
MaxTime   == 2      \* last value of the clock
NewPriceCents == 1999   \* the price a PUT /products/{id} sets
MaxSubtotal == 42000    \* largest subtotal calculateOrderTotal is called with

\* ------------------------------------------------------ program constants
PriceP1 == 15999
PriceP2 == 2499
ShippingThresholdCents == 10000
ShippingFeeCents == 1000
MaxPollCount == 10

Buyers   == {"b1", "b2"}
Products == {"p1", "p2"}
Procs    == {"r1", "r2"}
OrderIds == 1..MaxOrders

SeedPrice(p) == IF p = "p1" THEN PriceP1 ELSE PriceP2

VARIABLES
    productRows,  \* the products that have a Product row
    priceCents,   \* Product.priceCents
    inventoryRows,\* the products that have a PLATFORM Inventory row
    inventory,    \* Inventory.quantity of the PLATFORM row of each product (committed)
    carts,        \* Cart of each buyer: exists, orderId, items (CartItem rows)
    orders,       \* Order rows with their OrderLine rows; the id is the index
    session,      \* provider: status of the order's latest checkout session
    paidEvt,      \* provider: a payment of the order has succeeded (events exist)
    now,          \* the clock read by new Date()
    req,          \* requests in flight
    response,     \* the response sent by the last step, NoResponse if it sent none
    calc,         \* a call of calculateOrderTotal: its argument and what it returned
    client        \* the order page of a browser back from the checkout

\* the Product rows and the existence of the Inventory rows
catalog == <<productRows, priceCents, inventoryRows>>

\* what no route handler reads or writes
page == <<calc, client>>

vars == <<catalog, inventory, carts, orders, session, paidEvt, now, req, response, page>>

\* ---------------------------------------------------------------- helpers
ZeroDelta == [p \in Products |-> 0]

Idle == [op |-> "none", pc |-> "idle", buyer |-> "-", order |-> 0, items |-> <<>>,
         idx |-> 0, sub |-> 0, delta |-> ZeroDelta, locks |-> {},
         hadCart |-> FALSE, seen |-> 0, product |-> "-"]

NoResponse == [op |-> "none", status |-> 0, order |-> 0, line |-> 0, event |-> "-"]

Resp(op, status) == [NoResponse EXCEPT !.op = op, !.status = status]

\* a response about the order o
RespOrder(op, status, o) == [NoResponse EXCEPT !.op = op, !.status = status, !.order = o]

\* the response to a POST /orders that failed at the cart item number line
RespLine(op, status, line) == [NoResponse EXCEPT !.op = op, !.status = status, !.line = line]

\* no call of calculateOrderTotal made yet; subtotalCents is its argument
NoCalc == [called |-> FALSE, subtotalCents |-> 0,
           out |-> [subtotalCents |-> 0, gstCents |-> 0, qstCents |-> 0,
                    taxCents |-> 0, shippingCents |-> 0, totalCents |-> 0]]

\* the order page not opened: paymentCheckLoading, pollCount of the interval
\* callback, the interval being set, the payment-status requests issued and
\* those whose response has not come yet, what the last response said and
\* whether its handling threw before the paymentStatus was looked at
NoPage == [paymentCheckLoading |-> FALSE, pollCount |-> 0, interval |-> FALSE,
           issued |-> 0, waiting |-> 0, opened |-> FALSE, last |-> "-",
           threw |-> FALSE]

\* mutant: the ownership test lets every buyer through
OwnsAnyOrder(b, order) == TRUE

\* order.buyerId !== user.id is the 403 of the order routes
Owns(b, order) == order.buyerId = b

EmptyCart == [exists |-> FALSE, orderId |-> 0, items |-> <<>>]

RECURSIVE SumLines(_)
SumLines(ls) ==
    IF ls = <<>> THEN 0
    ELSE Head(ls).quantity * Head(ls).unitPriceCents + SumLines(Tail(ls))

RECURSIVE LineQty(_, _)
LineQty(ls, p) ==
    IF ls = <<>> THEN 0
    ELSE (IF Head(ls).productId = p THEN Head(ls).quantity ELSE 0) + LineQty(Tail(ls), p)

\* Math.round(x / d) for x >= 0: nearest integer, halves up. The doubles 0.05
\* and 0.09975 lie just above the decimal rates, so the double product of a
\* subtotal with them is never below a half that the exact product reaches.
RoundDiv(x, d) == (2 * x + d) \div (2 * d)

calculateGST(subtotalCents) == RoundDiv(subtotalCents * 5, 100)

\* mutant: the provincial tax is cut off, not rounded
calculateQSTTruncates(subtotalCents) == (subtotalCents * 9975) \div 100000

calculateQST(subtotalCents) == RoundDiv(subtotalCents * 9975, 100000)

calculateShipping(subtotalCents) ==
    IF subtotalCents >= ShippingThresholdCents THEN 0 ELSE ShippingFeeCents

\* mutant: the total leaves the shipping fee out
calculateOrderTotalNoShipping(subtotalCents) ==
    [subtotalCents |-> subtotalCents,
     gstCents |-> calculateGST(subtotalCents),
     qstCents |-> calculateQST(subtotalCents),
     taxCents |-> calculateGST(subtotalCents) + calculateQST(subtotalCents),
     shippingCents |-> calculateShipping(subtotalCents),
     totalCents |-> subtotalCents + calculateGST(subtotalCents)
                      + calculateQST(subtotalCents)]

calculateOrderTotal(subtotalCents) ==
    LET gstCents == calculateGST(subtotalCents)
        qstCents == calculateQST(subtotalCents)
        taxCents == gstCents + qstCents
        shippingCents == calculateShipping(subtotalCents)
    IN  [subtotalCents |-> subtotalCents,
         gstCents |-> gstCents,
         qstCents |-> qstCents,
         taxCents |-> taxCents,
         shippingCents |-> shippingCents,
         totalCents |-> subtotalCents + taxCents + shippingCents]

\* row lock of the inventory row of p is held by a transaction other than r
LockedByOther(r, p) == \E q \in Procs \ {r} : p \in req[q].locks

\* the product whose inventory row the next statement of r updates ("-" if none)
NextLock(r) ==
    IF req[r].pc \in {"decrement", "release"}
    THEN req[r].items[req[r].idx].productId
    ELSE "-"

Blocked(r) == NextLock(r) # "-" /\ LockedByOther(r, NextLock(r))

\* requests of POST /orders that may still insert an order
Creating == {r \in Procs : req[r].op = "create"}

\* ------------------------------------------------------------------- Init
InitStore ==
    /\ productRows = Products
    /\ priceCents = [p \in Products |-> SeedPrice(p)]
    /\ inventoryRows = Products
    /\ inventory = [p \in Products |-> InitStock]
    /\ carts = [b \in Buyers |-> EmptyCart]
    /\ orders = <<>>
    /\ session = [o \in OrderIds |-> "none"]
    /\ paidEvt = [o \in OrderIds |-> FALSE]
    /\ now = 1
    /\ req = [r \in Procs |-> Idle]
    /\ response = NoResponse
    /\ client = NoPage

Init == InitStore /\ calc = NoCalc

\* the same with a call of calculateOrderTotal about to be made, with any
\* subtotal up to MaxSubtotal as its argument
InitCalc ==
    /\ InitStore
    /\ calc \in {[NoCalc EXCEPT !.subtotalCents = s] : s \in 0..MaxSubtotal}

\* ------------------------------------------------------ POST /api/cart/items
ItemIndex(items, p) ==
    IF \E i \in 1..Len(items) : items[i].productId = p
    THEN CHOOSE i \in 1..Len(items) : items[i].productId = p
    ELSE 0

AddedItems(items, p, q) ==
    LET i == ItemIndex(items, p)
    IN  IF i # 0
        THEN [items EXCEPT ![i].quantity = items[i].quantity + q]
        ELSE Append(items, [productId |-> p, quantity |-> q,
                            unitPriceCents |-> priceCents[p]])

\* the whole handler, when no other request writes the buyer's cart between its
\* reads and its write (CartAddRead and CartAddWrite below are its two halves)
AddCartItem(b, p, q, cap) ==
    /\ Len(orders) + Cardinality(Creating) < cap
    /\ LineQty(carts[b].items, p) + q <= MaxQty
    /\ IF p \notin productRows
       THEN /\ response' = Resp("addItem", 404)
            /\ UNCHANGED carts
       ELSE /\ carts' = [carts EXCEPT ![b] = [exists |-> TRUE,
                                              orderId |-> carts[b].orderId,
                                              items |-> AddedItems(carts[b].items, p, q)]]
            /\ response' = Resp("addItem", 200)
    /\ UNCHANGED <<catalog, inventory, orders, session, paidEvt, now, req>>
    /\ UNCHANGED page

\* product.findUnique, then inside $transaction cart.findUnique (cart.create when
\* there is none) and cartItem.findUnique: the request keeps the quantity it saw
CartAddRead(r, b, p, q, cap) ==
    /\ req[r].pc = "idle"
    /\ Len(orders) + Cardinality(Creating) < cap
    /\ LineQty(carts[b].items, p) + q <= MaxQty
    /\ IF p \notin productRows
       THEN req' = req /\ response' = Resp("addItem", 404)
       ELSE /\ req' = [req EXCEPT ![r] =
                         [Idle EXCEPT !.op = "addItem", !.pc = "addWrite", !.buyer = b,
                                      !.items = <<[productId |-> p, quantity |-> q,
                                                   unitPriceCents |-> priceCents[p]]>>,
                                      !.hadCart = carts[b].exists,
                                      !.seen = LineQty(carts[b].items, p)]]
            /\ response' = NoResponse
    /\ UNCHANGED <<catalog, inventory, carts, orders, session, paidEvt, now>>
    /\ UNCHANGED page

\* cartItem.update({ quantity: existing.quantity + n }) or cartItem.create, and
\* the commit. The statement throws, and the handler answers 500, when the row to
\* update is gone, or when the row (or the cart) to create has been created by
\* another request since the read (unique indexes Cart_buyerId_key and
\* CartItem_cartId_productId_key), or when the product has been deleted since
\* (CartItem_productId_fkey).
CartAddWrite(r) ==
    /\ req[r].pc = "addWrite"
    /\ LET b == req[r].buyer
           item == req[r].items[1]
           i == ItemIndex(carts[b].items, item.productId)
           throws == \/ ~req[r].hadCart /\ carts[b].exists
                     \/ req[r].seen # 0 /\ i = 0
                     \/ req[r].seen = 0 /\ i # 0
                     \/ req[r].seen = 0 /\ item.productId \notin productRows
       IN  IF throws
           THEN /\ response' = Resp("addItem", 500)
                /\ UNCHANGED carts
           ELSE /\ carts' = [carts EXCEPT ![b] =
                               [exists |-> TRUE,
                                orderId |-> carts[b].orderId,
                                items |-> IF i # 0
                                          THEN [carts[b].items EXCEPT ![i].quantity =
                                                   req[r].seen + item.quantity]
                                          ELSE Append(carts[b].items, item)]]
                /\ response' = Resp("addItem", 200)
    /\ req' = [req EXCEPT ![r] = Idle]
    /\ UNCHANGED <<catalog, inventory, orders, session, paidEvt, now>>
    /\ UNCHANGED page

\* ---------------------------------------------------------- POST /api/orders
\* the cart is read before the transaction starts; cap bounds the orders created
\* (and AddCartItem stops filling carts once no further order can be created)
\* mutant: only a missing cart counts as empty
CartEmptyOnlyMissing(cart) == ~cart.exists

\* !cart || cart.items.length === 0
CartEmpty(cart) == ~cart.exists \/ Len(cart.items) = 0

OrderReadCart(r, b, cap) ==
    /\ req[r].pc = "idle"
    /\ Len(orders) + Cardinality(Creating) < cap
    /\ IF CartEmpty(carts[b])
       THEN /\ req' = req
            /\ response' = Resp("create", 400)
       ELSE /\ req' = [req EXCEPT ![r] = [Idle EXCEPT !.op = "create",
                                              !.pc = IF Len(carts[b].items) = 0
                                                     THEN "commit" ELSE "check",
                                              !.buyer = b, !.items = carts[b].items,
                                              !.idx = 1]]
            /\ response' = NoResponse
    /\ UNCHANGED <<catalog, inventory, carts, orders, session, paidEvt, now>>
    /\ UNCHANGED page

StockSufficient(available, wanted) == available >= wanted

\* what the commit of r's transaction makes of the inventory rows
Committed(r) == [p \in Products |-> inventory[p] + req[r].delta[p]]

\* mutant: the decrements issued before the throw persist
RolledBackKeepsWrites(r) == Committed(r)

\* the inventory rows after the transaction of r is rolled back: its decrements are dropped
RolledBack(r) == inventory

\* tx.inventory.findFirst and the sufficiency test of one cart item
OrderCheckStock(r) ==
    /\ req[r].pc = "check"
    /\ LET item == req[r].items[req[r].idx]
       IN  IF /\ item.productId \in inventoryRows
              /\ StockSufficient(inventory[item.productId], item.quantity)
           THEN /\ req' = [req EXCEPT ![r].pc = "decrement",
                                      ![r].sub = @ + item.quantity * item.unitPriceCents]
                /\ response' = NoResponse
                /\ UNCHANGED inventory
           ELSE \* throw STOCK_INSUFFICIENT: the transaction rolls back
                /\ req' = [req EXCEPT ![r] = Idle]
                /\ response' = RespLine("create", 409, req[r].idx)
                /\ inventory' = RolledBack(r)
    /\ UNCHANGED <<catalog, carts, orders, session, paidEvt, now>>
    /\ UNCHANGED page

\* tx.inventory.update({ quantity: { decrement: item.quantity } }); it throws
\* (500, rollback) when the row found by the check has been deleted since
OrderDecrement(r) ==
    /\ req[r].pc = "decrement"
    /\ ~Blocked(r)
    /\ LET item == req[r].items[req[r].idx]
       IN  IF item.productId \in inventoryRows
           THEN /\ req' = [req EXCEPT ![r].delta[item.productId] = @ - item.quantity,
                                      ![r].locks = @ \cup {item.productId},
                                      ![r].idx = @ + 1,
                                      ![r].pc = IF req[r].idx = Len(req[r].items)
                                                THEN "commit" ELSE "check"]
                /\ response' = NoResponse
           ELSE /\ req' = [req EXCEPT ![r] = Idle]
                /\ response' = Resp("create", 500)
    /\ UNCHANGED <<catalog, inventory, carts, orders, session, paidEvt, now>>
    /\ UNCHANGED page

\* mutant: the line takes the product's price at order time
LinePriceAtOrderTime(item) == priceCents[item.productId]

\* orderLines.push({ ..., unitPriceCents: item.unitPriceCents })
LinePrice(item) == item.unitPriceCents

NewOrder(buyer, lines, subtotal) ==
    LET t == calculateOrderTotal(subtotal)
    IN  [buyerId |-> buyer, status |-> "CREATED",
         subtotalCents |-> subtotal, taxCents |-> t.taxCents,
         shippingCents |-> t.shippingCents, totalCents |-> t.totalCents,
         lines |-> [i \in 1..Len(lines) |->
                      [productId |-> lines[i].productId,
                       quantity |-> lines[i].quantity,
                       unitPriceCents |-> LinePrice(lines[i])]],
         paymentIntentId |-> "none", paidAt |-> 0, paymentStatus |-> "none"]

\* mutant: the transaction leaves the cart items in place
OrderCommitKeepsCart(r) ==
    /\ req[r].pc = "commit"
    /\ orders' = Append(orders, NewOrder(req[r].buyer, req[r].items, req[r].sub))
    /\ carts' = [carts EXCEPT ![req[r].buyer].orderId = Len(orders) + 1]
    /\ inventory' = Committed(r)
    /\ response' = RespOrder("create", 201, Len(orders) + 1)
    /\ req' = [req EXCEPT ![r] = Idle]
    /\ UNCHANGED <<catalog, session, paidEvt, now, page>>

\* order.create, orderLine.create for every line, cart.update, cartItem.deleteMany,
\* commit; orderLine.create throws (500, rollback) when the product of a line
\* has been deleted (OrderLine_productId_fkey)
OrderCommit(r) ==
    /\ req[r].pc = "commit"
    /\ IF \A i \in 1..Len(req[r].items) : req[r].items[i].productId \in productRows
       THEN /\ orders' = Append(orders, NewOrder(req[r].buyer, req[r].items, req[r].sub))
            /\ carts' = [carts EXCEPT ![req[r].buyer].orderId = Len(orders) + 1,
                                      ![req[r].buyer].items = <<>>]
            /\ inventory' = Committed(r)
            /\ response' = RespOrder("create", 201, Len(orders) + 1)
       ELSE /\ response' = Resp("create", 500)
            /\ UNCHANGED <<orders, carts, inventory>>
    /\ req' = [req EXCEPT ![r] = Idle]
    /\ UNCHANGED <<catalog, session, paidEvt, now>>
    /\ UNCHANGED page

\* ------------------------------------------------- DELETE /api/orders/[id]
OrderExists(o) == o \in 1..Len(orders)

\* mutant: only an order that is already cancelled is refused
CancellableUnlessCancelled(status) == status # "CANCELLED"

Cancellable(status) == status = "CREATED"

\* findUnique outside the transaction, then the 404 / 403 / 400 returns
CancelRead(r, b, o) ==
    /\ req[r].pc = "idle"
    /\ IF ~OrderExists(o)
       THEN req' = req /\ response' = RespOrder("cancel", 404, o)
       ELSE IF ~Owns(b, orders[o])
       THEN req' = req /\ response' = RespOrder("cancel", 403, o)
       ELSE IF ~Cancellable(orders[o].status)
       THEN req' = req /\ response' = RespOrder("cancel", 400, o)
       ELSE /\ req' = [req EXCEPT ![r] = [Idle EXCEPT !.op = "cancel", !.pc = "release",
                                              !.buyer = b, !.order = o,
                                              !.items = orders[o].lines, !.idx = 1]]
            /\ response' = NoResponse
    /\ UNCHANGED <<catalog, inventory, carts, orders, session, paidEvt, now>>
    /\ UNCHANGED page

\* mutant: one unit is given back per line
ReleaseOneUnit(line) == 1

ReleaseAmount(line) == line.quantity

\* tx.inventory.findFirst and, if (inventory), update({ quantity: { increment:
\* line.quantity } })
CancelRelease(r) ==
    /\ req[r].pc = "release"
    /\ ~Blocked(r)
    /\ LET line == req[r].items[req[r].idx]
           found == line.productId \in inventoryRows
       IN  req' = [req EXCEPT ![r].delta[line.productId] =
                                  IF found THEN @ + ReleaseAmount(line) ELSE @,
                              ![r].locks = IF found THEN @ \cup {line.productId} ELSE @,
                              ![r].idx = @ + 1,
                              ![r].pc = IF req[r].idx = Len(req[r].items)
                                        THEN "cancelCommit" ELSE "release"]
    /\ response' = NoResponse
    /\ UNCHANGED <<catalog, inventory, carts, orders, session, paidEvt, now>>
    /\ UNCHANGED page

\* tx.order.update({ status: "CANCELLED" }) and commit
CancelCommit(r) ==
    /\ req[r].pc = "cancelCommit"
    /\ orders' = [orders EXCEPT ![req[r].order].status = "CANCELLED"]
    /\ inventory' = Committed(r)
    /\ req' = [req EXCEPT ![r] = Idle]
    /\ response' = RespOrder("cancel", 200, req[r].order)
    /\ UNCHANGED <<catalog, carts, session, paidEvt, now>>
    /\ UNCHANGED page

\* Two transactions each wait for a row lock the other holds: the store aborts
\* one of them, the callback throws and the handler answers 500.
DeadlockAbort(r) ==
    /\ Blocked(r)
    /\ \E q \in Procs \ {r} :
          /\ NextLock(r) \in req[q].locks
          /\ Blocked(q)
          /\ NextLock(q) \in req[r].locks
    /\ req' = [req EXCEPT ![r] = Idle]
    /\ response' = Resp(req[r].op, 500)
    /\ UNCHANGED <<catalog, inventory, carts, orders, session, paidEvt, now>>
    /\ UNCHANGED page

\* ------------------------------------------------- PUT /api/products/[id]
\* An admin request; price and stock are the optional fields priceCents and
\* currentStock of the body, each a set with at most one element. The stock
\* is written first, as an absolute quantity (the row is created when the
\* product has none), then the product row is updated.
ProductPut(p, price, stock) ==
    /\ IF p \notin productRows
       THEN /\ response' = Resp("putProduct", 404)
            /\ UNCHANGED <<catalog, inventory>>
       ELSE /\ stock # {} => \A q \in Procs : p \notin req[q].locks
            /\ inventory' = IF stock = {} THEN inventory
                             ELSE [inventory EXCEPT ![p] = CHOOSE n \in stock : TRUE]
            /\ inventoryRows' = IF stock = {} THEN inventoryRows
                                 ELSE inventoryRows \cup {p}
            /\ priceCents' = IF price = {} THEN priceCents
                              ELSE [priceCents EXCEPT ![p] = CHOOSE c \in price : TRUE]
            /\ response' = Resp("putProduct", 200)
            /\ UNCHANGED productRows
    /\ UNCHANGED <<carts, orders, session, paidEvt, now, req>>
    /\ UNCHANGED page

\* ------------------------------------------------ DELETE /api/products/[id]
\* the order lines of the product p under an order of one of the statuses
LinesUnder(p, statuses) ==
    {<<o, i>> \in OrderIds \X (1..Cardinality(Products)) :
        /\ OrderExists(o)
        /\ orders[o].status \in statuses
        /\ i <= Len(orders[o].lines)
        /\ orders[o].lines[i].productId = p}

\* prisma.orderLine.count({ productId, order: { status: { in: ["CREATED", "PAID"] } } })
activeOrderLineCount(p) == Cardinality(LinesUnder(p, {"CREATED", "PAID"}))

\* the rows that reference the product row of p under ON DELETE RESTRICT
Referenced(p) ==
    \/ LinesUnder(p, {"CREATED", "PAID", "CANCELLED"}) # {}
    \/ \E b \in Buyers : LineQty(carts[b].items, p) # 0
    \/ p \in inventoryRows

\* product.findUnique and orderLine.count, with their early returns
ProductDeleteRead(r, p) ==
    /\ req[r].pc = "idle"
    /\ IF p \notin productRows
       THEN req' = req /\ response' = Resp("deleteProduct", 404)
       ELSE IF activeOrderLineCount(p) > 0
       THEN req' = req /\ response' = Resp("deleteProduct", 400)
       ELSE /\ req' = [req EXCEPT ![r] = [Idle EXCEPT !.op = "deleteProduct",
                                              !.pc = "delCartItems",
                                              !.product = p]]
            /\ response' = NoResponse
    /\ UNCHANGED <<catalog, inventory, carts, orders, session, paidEvt, now>>
    /\ UNCHANGED page

\* prisma.cartItem.deleteMany({ where: { productId: id } })
ProductDeleteCartItems(r) ==
    /\ req[r].pc = "delCartItems"
    /\ carts' = [b \in Buyers |->
                   [carts[b] EXCEPT !.items =
                       SelectSeq(@, LAMBDA it : it.productId # req[r].product)]]
    /\ req' = [req EXCEPT ![r].pc = "delInventory"]
    /\ response' = NoResponse
    /\ UNCHANGED <<catalog, inventory, orders, session, paidEvt, now>>
    /\ UNCHANGED page

\* prisma.inventory.deleteMany({ where: { productId: id } }); the statement
\* waits while a transaction holds the lock of the row
ProductDeleteInventory(r) ==
    /\ req[r].pc = "delInventory"
    /\ \A q \in Procs : req[r].product \notin req[q].locks
    /\ inventoryRows' = inventoryRows \ {req[r].product}
    /\ inventory' = [inventory EXCEPT ![req[r].product] = 0]
    /\ req' = [req EXCEPT ![r].pc = "delProduct"]
    /\ response' = NoResponse
    /\ UNCHANGED <<productRows, priceCents, carts, orders, session, paidEvt, now>>
    /\ UNCHANGED page

\* prisma.product.delete({ where: { id } }); it throws, and the catch answers
\* 500, when the row is gone or a row still references it
ProductDeleteRow(r) ==
    /\ req[r].pc = "delProduct"
    /\ IF req[r].product \in productRows /\ ~Referenced(req[r].product)
       THEN /\ productRows' = productRows \ {req[r].product}
            /\ response' = Resp("deleteProduct", 200)
       ELSE /\ response' = Resp("deleteProduct", 500)
            /\ UNCHANGED productRows
    /\ req' = [req EXCEPT ![r] = Idle]
    /\ UNCHANGED <<priceCents, inventoryRows, inventory, carts, orders, session,
                   paidEvt, now>>
    /\ UNCHANGED page

\* ---------------------------------------------- POST /api/orders/[id]/pay
Payable(status) == status = "CREATED"

PayRead(r, b, o) ==
    /\ req[r].pc = "idle"
    /\ IF ~OrderExists(o)
       THEN req' = req /\ response' = RespOrder("pay", 404, o)
       ELSE IF ~Owns(b, orders[o])
       THEN req' = req /\ response' = RespOrder("pay", 403, o)
       ELSE IF ~Payable(orders[o].status)
       THEN req' = req /\ response' = RespOrder("pay", 400, o)
       ELSE /\ req' = [req EXCEPT ![r] = [Idle EXCEPT !.op = "pay", !.pc = "payUpdate",
                                              !.buyer = b, !.order = o]]
            /\ response' = NoResponse
    /\ UNCHANGED <<catalog, inventory, carts, orders, session, paidEvt, now>>
    /\ UNCHANGED page

\* mutant: paying takes the quantities of the lines from the stock once more
PayUpdateTakesStock(r) ==
    /\ req[r].pc = "payUpdate"
    /\ orders' = [orders EXCEPT ![req[r].order].status = "PAID"]
    /\ inventory' = [p \in Products |->
                        inventory[p] - LineQty(orders[req[r].order].lines, p)]
    /\ req' = [req EXCEPT ![r] = Idle]
    /\ response' = RespOrder("pay", 200, req[r].order)
    /\ UNCHANGED <<catalog, carts, session, paidEvt, now, page>>

\* prisma.order.update({ data: { status: "PAID" } })
PayUpdate(r) ==
    /\ req[r].pc = "payUpdate"
    /\ orders' = [orders EXCEPT ![req[r].order].status = "PAID"]
    /\ req' = [req EXCEPT ![r] = Idle]
    /\ response' = RespOrder("pay", 200, req[r].order)
    /\ UNCHANGED <<catalog, inventory, carts, session, paidEvt, now>>
    /\ UNCHANGED page

\* ---------------------------------------------- POST /api/checkout/session
\* creates a hosted session and stores its id ("cs_...") on the order
CheckoutSession(b, o) ==
    /\ IF ~OrderExists(o)
       THEN /\ response' = RespOrder("checkout", 404, o)
            /\ UNCHANGED <<orders, session>>
       ELSE IF ~Owns(b, orders[o])
       THEN /\ response' = RespOrder("checkout", 403, o)
            /\ UNCHANGED <<orders, session>>
       ELSE /\ session' = [session EXCEPT ![o] = "unpaid"]
            /\ orders' = [orders EXCEPT ![o].paymentIntentId = "cs"]
            /\ response' = RespOrder("checkout", 200, o)
    /\ UNCHANGED <<catalog, inventory, carts, paidEvt, now, req>>
    /\ UNCHANGED page

\* ------------------------------------------------------- payment provider
\* the buyer completes the payment on the hosted page
ProviderPay(o) ==
    /\ session[o] = "unpaid"
    /\ session' = [session EXCEPT ![o] = "paid"]
    /\ paidEvt' = [paidEvt EXCEPT ![o] = TRUE]
    /\ response' = NoResponse
    /\ UNCHANGED <<catalog, inventory, carts, orders, now, req>>
    /\ UNCHANGED page

SucceededEvents == {"checkout.session.completed",
                    "checkout.session.async_payment_succeeded",
                    "payment_intent.succeeded"}

FailedEvents == {"payment_intent.payment_failed",
                 "checkout.session.async_payment_failed"}

IgnoredEvents == {"checkout.session.expired"}

\* ------------------------------------------------ POST /api/webhooks/stripe
\* mutant: the payment update also moves the status
updateOrderPaymentAndStatus(os, orderId, paymentIntentId, paidAt, paymentStatus) ==
    [os EXCEPT ![orderId].paymentIntentId = paymentIntentId,
               ![orderId].paidAt = paidAt,
               ![orderId].paymentStatus = paymentStatus,
               ![orderId].status = IF paymentStatus = "PAID" THEN "PAID" ELSE "CANCELLED"]

updateOrderPayment(os, orderId, paymentIntentId, paidAt, paymentStatus) ==
    [os EXCEPT ![orderId].paymentIntentId = paymentIntentId,
               ![orderId].paidAt = paidAt,
               ![orderId].paymentStatus = paymentStatus]

\* the stripe-signature header of a request: made by the provider with the
\* shared secret, or by anyone else
Signatures == {"valid", "forged"}

\* mutant: every signature is accepted
constructEventAcceptsAll(sig) == TRUE

\* stripe.webhooks.constructEvent: throws unless the signature verifies
constructEvent(sig) == sig = "valid"

\* the request is recorded as "webhook" when the provider signed it and as
\* "forged" otherwise
HookOp(sig) == IF sig = "valid" THEN "webhook" ELSE "forged"

\* the kind of the event named by the body
EventKind(e) ==
    IF e \in SucceededEvents THEN "succeeded"
    ELSE IF e \in FailedEvents THEN "failed" ELSE "ignored"

\* the response to the webhook request with signature sig about an event of
\* kind kind of the order o
RespHook(sig, kind, status, o) ==
    [NoResponse EXCEPT !.op = HookOp(sig), !.status = status, !.order = o,
                       !.event = kind]

\* the signature check fails: 400 before the event is looked at
WebhookRejected(sig, e, o) ==
    /\ ~constructEvent(sig)
    /\ response' = RespHook(sig, EventKind(e), 400, o)
    /\ UNCHANGED <<catalog, inventory, carts, orders, session, paidEvt, now, req>>
    /\ UNCHANGED page

\* a succeeded event: prisma.order.update({ status: "PAID" }) ...
\* (the provider sends it once a payment of the order has succeeded)
WebhookSucceeded(r, sig, e, o) ==
    /\ req[r].pc = "idle"
    /\ constructEvent(sig)
    /\ e \in SucceededEvents
    /\ OrderExists(o)
    /\ sig = "valid" => paidEvt[o]
    /\ orders' = [orders EXCEPT ![o].status = "PAID"]
    /\ req' = [req EXCEPT ![r] = [Idle EXCEPT !.op = HookOp(sig), !.pc = "whPayment",
                                       !.order = o]]
    /\ response' = NoResponse
    /\ UNCHANGED <<catalog, inventory, carts, session, paidEvt, now>>
    /\ UNCHANGED page

\* ... then updateOrderPayment(orderId, payment_intent, new Date(), "PAID")
WebhookPayment(r) ==
    /\ req[r].pc = "whPayment"
    /\ orders' = updateOrderPayment(orders, req[r].order, "pi", now, "PAID")
    /\ req' = [req EXCEPT ![r] = Idle]
    /\ response' = [NoResponse EXCEPT !.op = req[r].op, !.status = 200,
                                      !.order = req[r].order, !.event = "succeeded"]
    /\ UNCHANGED <<catalog, inventory, carts, session, paidEvt, now>>
    /\ UNCHANGED page

\* a failed event: updateOrderPayment(orderId, payment_intent, null, "PAYMENT_FAILED")
WebhookFailed(sig, e, o) ==
    /\ constructEvent(sig)
    /\ e \in FailedEvents
    /\ OrderExists(o)
    /\ sig = "valid" => session[o] # "none"
    /\ orders' = updateOrderPayment(orders, o, "pi", 0, "PAYMENT_FAILED")
    /\ response' = RespHook(sig, "failed", 200, o)
    /\ UNCHANGED <<catalog, inventory, carts, session, paidEvt, now, req>>
    /\ UNCHANGED page

\* checkout.session.completed with payment_status unpaid, or an expired session
WebhookIgnored(sig, e, o) ==
    /\ constructEvent(sig)
    /\ e \in IgnoredEvents \cup {"checkout.session.completed"}
    /\ OrderExists(o)
    /\ sig = "valid" => session[o] # "none"
    /\ response' = RespHook(sig, "ignored", 200, o)
    /\ UNCHANGED <<catalog, inventory, carts, orders, session, paidEvt, now, req>>
    /\ UNCHANGED page

\* a verified event whose metadata names an order id that is not in the store:
\* prisma.order.update throws (record not found) and the catch answers 500;
\* the raw UPDATE of a failed event matches no row and the answer is 200
WebhookUnknownOrder(sig, e, o) ==
    /\ constructEvent(sig)
    /\ ~OrderExists(o)
    /\ response' = RespHook(sig, EventKind(e),
                            IF e \in SucceededEvents THEN 500 ELSE 200, o)
    /\ UNCHANGED <<catalog, inventory, carts, orders, session, paidEvt, now, req>>
    /\ UNCHANGED page

\* -------------------------------------- GET /api/orders/[id]/payment-status
AlreadyPaid(order) == order.status = "PAID" \/ order.paymentStatus = "PAID"

\* findUnique, the early returns, and stripe.checkout.sessions.retrieve
PollRead(r, b, o) ==
    /\ req[r].pc = "idle"
    /\ IF ~OrderExists(o)
       THEN req' = req /\ response' = RespOrder("poll", 404, o)
       ELSE IF ~Owns(b, orders[o])
       THEN req' = req /\ response' = RespOrder("poll", 403, o)
       ELSE IF AlreadyPaid(orders[o])
       THEN req' = req /\ response' = RespOrder("poll", 200, o)
       ELSE IF orders[o].paymentIntentId = "cs" /\ session[o] = "paid"
       THEN /\ req' = [req EXCEPT ![r] = [Idle EXCEPT !.op = "poll", !.pc = "pollUpdate",
                                              !.buyer = b, !.order = o]]
            /\ response' = NoResponse
       ELSE req' = req /\ response' = RespOrder("poll", 200, o)
    /\ UNCHANGED <<catalog, inventory, carts, orders, session, paidEvt, now>>
    /\ UNCHANGED page

\* prisma.order.update({ status: "PAID", paymentStatus: "PAID", paidAt: new Date() })
PollUpdate(r) ==
    /\ req[r].pc = "pollUpdate"
    /\ orders' = [orders EXCEPT ![req[r].order].status = "PAID",
                                ![req[r].order].paymentStatus = "PAID",
                                ![req[r].order].paidAt = now]
    /\ req' = [req EXCEPT ![r] = Idle]
    /\ response' = RespOrder("poll", 200, req[r].order)
    /\ UNCHANGED <<catalog, inventory, carts, session, paidEvt, now>>
    /\ UNCHANGED page

\* ----------------------------------------------------- calculateOrderTotal
\* the call calculateOrderTotal(subtotalCents) returns
Calculate ==
    /\ ~calc.called
    /\ calc' = [calc EXCEPT !.called = TRUE,
                            !.out = calculateOrderTotal(calc.subtotalCents)]
    /\ response' = NoResponse
    /\ UNCHANGED <<catalog, inventory, carts, orders, session, paidEvt, now, req, client>>

\* ------------------------------------- order page: payment polling effect
\* what a payment-status response can say: paymentStatus PAID, another
\* paymentStatus, or success false (or the fetch throws)
Replies == {"PAID", "unpaid", "failed"}

\* if (pollCount >= 10)
PollLimitReached(pollCount) == pollCount >= MaxPollCount

\* the page is opened, with or without ?session_id=...:
\* useState(!!sessionId), and the effect sets the interval with pollCount = 0
OpenOrderPage(hasSessionId) ==
    /\ ~client.opened
    /\ client' = [NoPage EXCEPT !.opened = TRUE,
                                !.paymentCheckLoading = hasSessionId,
                                !.interval = hasSessionId]
    /\ response' = NoResponse
    /\ UNCHANGED <<catalog, inventory, carts, orders, session, paidEvt, now, req, calc>>

\* the interval callback, every 1000 ms while the interval is set: pollCount++,
\* pollPaymentStatus() is started, and the tenth call clears the interval
IntervalTick ==
    /\ client.interval
    /\ LET n == client.pollCount + 1
       IN  client' = [client EXCEPT
                        !.pollCount = n,
                        !.issued = @ + 1,
                        !.waiting = @ + 1,
                        !.interval = ~PollLimitReached(n),
                        !.paymentCheckLoading = IF PollLimitReached(n) THEN FALSE ELSE @]
    /\ response' = NoResponse
    /\ UNCHANGED <<catalog, inventory, carts, orders, session, paidEvt, now, req, calc>>

\* a response of a payment-status request comes. With json.updated the order
\* is fetched again first, and when that fetch throws the catch ends the
\* handling. Otherwise PAID sets paymentCheckLoading to false, and the cleanup
\* of the effect clears the interval.
PollResponse(reply, updated, refetchThrows) ==
    /\ client.waiting > 0
    /\ updated => reply = "PAID"
    /\ refetchThrows => updated
    /\ LET stop == reply = "PAID" /\ ~refetchThrows
       IN  client' = [client EXCEPT
                        !.waiting = @ - 1,
                        !.last = reply,
                        !.threw = refetchThrows,
                        !.paymentCheckLoading = IF stop THEN FALSE ELSE @,
                        !.interval = IF stop THEN FALSE ELSE @]
    /\ response' = NoResponse
    /\ UNCHANGED <<catalog, inventory, carts, orders, session, paidEvt, now, req, calc>>

\* ------------------------------------------------------------------ clock
Tick ==
    /\ now < MaxTime
    /\ now' = now + 1
    /\ response' = NoResponse
    /\ UNCHANGED <<catalog, inventory, carts, orders, session, paidEvt, req>>
    /\ UNCHANGED page

\* ------------------------------------------------------------------- Next
\* the steps of the handlers, for requests in the slots RS, of the buyers BS,
\* about the products PS and the orders OS, creating at most cap orders
OrderSteps(RS, BS, cap) ==
    \/ \E r \in RS, b \in BS : OrderReadCart(r, b, cap)
    \/ \E r \in RS : OrderCheckStock(r)
    \/ \E r \in RS : OrderDecrement(r)
    \/ \E r \in RS : OrderCommit(r)

\* order creation, with additions to the cart that run one at a time
CreateSteps(RS, BS, PS, cap) ==
    \/ \E b \in BS, p \in PS, q \in 1..MaxQty : AddCartItem(b, p, q, cap)
    \/ OrderSteps(RS, BS, cap)

\* POST /cart/items as its two halves
CartSteps(RS, BS, PS, cap) ==
    \/ \E r \in RS, b \in BS, p \in PS, q \in 1..MaxQty : CartAddRead(r, b, p, q, cap)
    \/ \E r \in RS : CartAddWrite(r)

CancelSteps(RS, BS, OS) ==
    \/ \E r \in RS, b \in BS, o \in OS : CancelRead(r, b, o)
    \/ \E r \in RS : CancelRelease(r)
    \/ \E r \in RS : CancelCommit(r)

PaySteps(RS, BS, OS) ==
    \/ \E r \in RS, b \in BS, o \in OS : PayRead(r, b, o)
    \/ \E r \in RS : PayUpdate(r)

\* ... and the webhook requests with a signature of SS
ProviderSteps(RS, BS, OS, SS) ==
    \/ \E b \in BS, o \in OS : CheckoutSession(b, o)
    \/ \E o \in OS : ProviderPay(o)
    \/ \E r \in RS, sig \in SS, e \in SucceededEvents, o \in OS :
          WebhookSucceeded(r, sig, e, o)
    \/ \E r \in RS : WebhookPayment(r)
    \/ \E sig \in SS, e \in FailedEvents, o \in OS : WebhookFailed(sig, e, o)
    \/ \E sig \in SS, e \in IgnoredEvents \cup {"checkout.session.completed"}, o \in OS :
          WebhookIgnored(sig, e, o)
    \/ \E r \in RS, b \in BS, o \in OS : PollRead(r, b, o)
    \/ \E r \in RS : PollUpdate(r)

\* DELETE /products/{id} as its statements
DeleteSteps(RS, PS) ==
    \/ \E r \in RS, p \in PS : ProductDeleteRead(r, p)
    \/ \E r \in RS : ProductDeleteCartItems(r)
    \/ \E r \in RS : ProductDeleteInventory(r)
    \/ \E r \in RS : ProductDeleteRow(r)

\* the admin's product updates of the products PS, with a price of prices and
\* a stock of stocks
ProductSteps(PS, prices, stocks) ==
    \E p \in PS, price \in prices, stock \in stocks : ProductPut(p, price, stock)

\* webhook requests that fail the signature check or name an unknown order
HookEdgeSteps(OS, SS) ==
    \/ \E sig \in SS, e \in SucceededEvents \cup FailedEvents \cup IgnoredEvents, o \in OS :
          WebhookRejected(sig, e, o)
    \/ \E sig \in SS, e \in SucceededEvents \cup FailedEvents \cup IgnoredEvents, o \in OS :
          WebhookUnknownOrder(sig, e, o)

ClockSteps == Tick

\* the order page of the browser
PageSteps ==
    \/ \E hasSessionId \in BOOLEAN : OpenOrderPage(hasSessionId)
    \/ IntervalTick
    \/ \E reply \in Replies, updated \in BOOLEAN, refetchThrows \in BOOLEAN :
          PollResponse(reply, updated, refetchThrows)

CalcSteps == Calculate

DeadlockSteps == \E r \in Procs : DeadlockAbort(r)

Next ==
    \/ CartSteps(Procs, Buyers, Products, MaxOrders)
    \/ OrderSteps(Procs, Buyers, MaxOrders)
    \/ CancelSteps(Procs, Buyers, OrderIds)
    \/ DeadlockSteps
    \/ PaySteps(Procs, Buyers, OrderIds)
    \/ ProviderSteps(Procs, Buyers, OrderIds, Signatures)
    \/ HookEdgeSteps(OrderIds, Signatures)
    \/ ProductSteps(Products, {{}, {NewPriceCents}}, {{}} \cup {{n} : n \in 0..InitStock})
    \/ DeleteSteps(Procs, Products)
    \/ CalcSteps
    \/ PageSteps
    \/ ClockSteps

Spec == Init /\ [][Next]_vars

\* two buyers racing for one product: order creation and cancellation
RaceNext ==
    \/ CreateSteps(Procs, Buyers, {"p1"}, MaxOrders)
    \/ CancelSteps(Procs, Buyers, OrderIds)

SpecRace == Init /\ [][RaceNext]_vars

\* one buyer, carts of several lines: order creation and cancellation
LinesNext ==
    \/ CreateSteps(Procs, {"b1"}, Products, MaxOrders)
    \/ CancelSteps(Procs, {"b1"}, OrderIds)
    \/ DeadlockSteps

SpecLines == Init /\ [][LinesNext]_vars

\* one buyer, several requests in flight, carts of several lines: order creation
CreateNext == CreateSteps(Procs, {"b1"}, Products, MaxOrders)

SpecCreate == Init /\ [][CreateNext]_vars

\* one buyer, several requests in flight, carts of several lines: order creation
\* and cancellation
RoundTripNext ==
    \/ CreateSteps(Procs, {"b1"}, Products, PayOrders)
    \/ CancelSteps(Procs, {"b1"}, 1..PayOrders)

SpecRoundTrip == Init /\ [][RoundTripNext]_vars

\* two buyers, one product, several requests in flight: creation, cancellation
\* and direct payment
GuardNext ==
    \/ CreateSteps(Procs, Buyers, {"p1"}, PayOrders)
    \/ CancelSteps(Procs, Buyers, 1..PayOrders)
    \/ PaySteps(Procs, Buyers, 1..PayOrders)

SpecGuard == Init /\ [][GuardNext]_vars

\* one buyer, one product, several requests in flight: the lifecycle and the
\* payment paths of every order
PayNext ==
    \/ CreateSteps(Procs, {"b1"}, {"p1"}, PayOrders)
    \/ CancelSteps(Procs, {"b1"}, 1..PayOrders)
    \/ PaySteps(Procs, {"b1"}, 1..PayOrders)
    \/ ProviderSteps(Procs, {"b1"}, 1..PayOrders, {"valid"})

SpecPay == Init /\ [][PayNext]_vars

\* one request at a time, carts of several lines, and every operation on the
\* first order
TotalsNext ==
    \/ CreateSteps({"r1"}, {"b1"}, Products, PayOrders)
    \/ CancelSteps({"r1"}, {"b1"}, {1})
    \/ PaySteps({"r1"}, {"b1"}, {1})
    \/ ProviderSteps({"r1"}, {"b1"}, {1}, {"valid"})

SpecTotals == Init /\ [][TotalsNext]_vars

\* one request at a time: the order lifecycle and the webhook requests of the
\* provider and of anyone else, about the first order
HookNext ==
    \/ CreateSteps({"r1"}, {"b1"}, {"p1"}, PayOrders)
    \/ CancelSteps({"r1"}, {"b1"}, {1})
    \/ PaySteps({"r1"}, {"b1"}, {1})
    \/ ProviderSteps({"r1"}, {"b1"}, {1}, Signatures)
    \/ HookEdgeSteps({1}, Signatures)

SpecHook == Init /\ [][HookNext]_vars

\* the same as SpecTotals with the clock advancing between the operations
ClockNext == TotalsNext \/ ClockSteps

SpecClock == Init /\ [][ClockNext]_vars

\* one buyer, one product, several requests in flight: the payment paths of
\* every order with the clock advancing
PollNext ==
    \/ CreateSteps(Procs, {"b1"}, {"p1"}, PayOrders)
    \/ ProviderSteps(Procs, {"b1"}, 1..PayOrders, {"valid"})
    \/ ClockSteps

SpecPoll == Init /\ [][PollNext]_vars

\* one request at a time, carts of several lines: order creation while the
\* admin changes prices
PriceNext ==
    \/ CreateSteps({"r1"}, {"b1"}, Products, PayOrders)
    \/ ProductSteps(Products, {{NewPriceCents}}, {{}})

SpecPrice == Init /\ [][PriceNext]_vars

\* one buyer, several requests in flight: additions to the cart and order
\* creation
CartNext ==
    \/ CartSteps(Procs, {"b1"}, Products, PayOrders)
    \/ OrderSteps(Procs, {"b1"}, PayOrders)

SpecCart == Init /\ [][CartNext]_vars

\* the orders of one buyer, and the cancel, pay, checkout and payment-status
\* requests of both buyers about the first of them
AuthNext ==
    \/ CreateSteps({"r1"}, {"b1"}, {"p1"}, PayOrders)
    \/ CancelSteps({"r1"}, Buyers, {1})
    \/ PaySteps({"r1"}, Buyers, {1})
    \/ ProviderSteps({"r1"}, Buyers, {1}, {"valid"})

SpecAuth == Init /\ [][AuthNext]_vars

\* the order page on its own; the timer of the interval goes on firing while
\* the interval is set, and a request that was sent gets its response
PageNext == PageSteps

SpecPage ==
    /\ Init
    /\ [][PageNext]_vars
    /\ WF_vars(IntervalTick)
    /\ WF_vars(\E reply \in Replies, updated \in BOOLEAN, refetchThrows \in BOOLEAN :
                  PollResponse(reply, updated, refetchThrows))

\* calculateOrderTotal on its own
CalcNext == CalcSteps

SpecCalc == InitCalc /\ [][CalcNext]_vars

\* one buyer ordering a product, and cancelling the order, while the admin
\* deletes the product
DeleteNext ==
    \/ CreateSteps({"r1"}, {"b1"}, {"p1"}, PayOrders)
    \/ CancelSteps({"r1"}, {"b1"}, 1..PayOrders)
    \/ DeleteSteps({"r2"}, {"p1"})

SpecDelete == Init /\ [][DeleteNext]_vars

\* the same requests made one after the other
DeleteSeqNext ==
    \/ CreateSteps({"r1"}, {"b1"}, Products, PayOrders)
    \/ CancelSteps({"r1"}, {"b1"}, 1..PayOrders)
    \/ DeleteSteps({"r1"}, Products)

SpecDeleteSeq == Init /\ [][DeleteSeqNext]_vars

\* ================================================================= claims

\* the POST /orders transaction of r commits in this step
CreateCommits(r) == req[r].pc = "commit" /\ req'[r].pc = "idle"

\* the DELETE /orders/{id} transaction of r commits in this step
CancelCommits(r) == req[r].pc = "cancelCommit" /\ req'[r].pc = "idle"

\* C1: in every reachable state the PLATFORM inventory quantity of every
\* product is >= 0.
C1_InventoryNonNegative == \A p \in Products : inventory[p] >= 0

\* C2: the sufficiency check and the decrement are one atomic unit: an order
\* creation commits its decrements only if the stock at that moment covers
\* every line it decrements, so of two racing requests whose combined quantity
\* exceeds the stock at most one commits.
C2_CheckAndDecrementAtomic ==
    [][\A r \in Procs :
          (/\ CreateCommits(r)
           /\ \A o \in 1..Len(orders) : orders[o].buyerId # req[r].buyer)
          => \A p \in Products : inventory[p] >= LineQty(req[r].items, p)]_vars

\* C3: when the stock check of any cart item fails, the request answers 409
\* and no inventory quantity, no order or order line and no cart item changes.
C3_FailedCheckChangesNothing ==
    [][/\ \A r \in Procs :
             (/\ req[r].pc = "check"
              /\ req'[r] # req[r]
              /\ ~StockSufficient(inventory[req[r].items[req[r].idx].productId],
                                  req[r].items[req[r].idx].quantity))
             => response' = RespLine("create", 409, req[r].idx)
       /\ (response'.op = "create" /\ response'.status = 409)
             => UNCHANGED <<inventory, orders, carts>>]_vars

\* C3 witness: a request failed at its second cart item, after the decrement of
\* the first one had been issued
C3_Witness == response.op = "create" /\ response.status = 409 /\ response.line = 2

\* C4: every committed order has totalCents = subtotalCents + taxCents +
\* shippingCents and subtotalCents = the sum over its lines of quantity *
\* unitPriceCents, also after pay, cancel, webhook and poll operations on it.
C4_TotalsConsistent ==
    \A o \in 1..Len(orders) :
        /\ orders[o].totalCents =
              orders[o].subtotalCents + orders[o].taxCents + orders[o].shippingCents
        /\ orders[o].subtotalCents = SumLines(orders[o].lines)

\* C4 witness: an order of two lines, one of them with a quantity of 2, that
\* was paid through the webhook
C4_Witness ==
    /\ Len(orders) >= 1
    /\ Len(orders[1].lines) = 2
    /\ orders[1].lines[2].quantity = 2
    /\ orders[1].status = "PAID"
    /\ orders[1].paymentStatus = "PAID"
    /\ orders[1].paidAt # 0

\* C5: the commit of an order takes exactly each line's quantity from the
\* inventory, and the commit of its cancellation gives exactly each line's
\* quantity back and leaves the order CANCELLED: cancelling right after
\* creating restores every quantity.
C5_CancelRestoresStock ==
    [][\A r \in Procs :
          /\ CreateCommits(r) =>
                \A p \in Products :
                    inventory'[p] = inventory[p] - LineQty(orders'[Len(orders')].lines, p)
          /\ CancelCommits(r) =>
                /\ \A p \in Products :
                      inventory'[p] =
                          inventory[p] + LineQty(orders[req[r].order].lines, p)
                /\ orders'[req[r].order].status = "CANCELLED"]_vars

\* C5 witness: the only order, of two lines with a quantity of 2, has been
\* cancelled and every quantity is back at its initial value
C5_Witness ==
    /\ response = RespOrder("cancel", 200, 1)
    /\ Len(orders) = 1
    /\ orders[1].status = "CANCELLED"
    /\ Len(orders[1].lines) = 2
    /\ orders[1].lines[1].quantity = 2
    /\ \A p \in Products : inventory[p] = InitStock

\* C6: a succeeded webhook delivered for an order that an earlier delivery has
\* already marked paid changes nothing: paidAt keeps its value.
C6_DuplicateSucceededIsNoop ==
    [][\A r \in Procs :
          (/\ req[r].pc = "whPayment"
           /\ req'[r].pc = "idle"
           /\ orders[req[r].order].paymentStatus = "PAID"
           /\ orders[req[r].order].paymentIntentId = "pi"
           /\ orders[req[r].order].paidAt # 0)
          => orders'[req[r].order].paidAt = orders[req[r].order].paidAt]_vars

\* C7: DELETE /orders/{id} on an order whose status is not CREATED is answered
\* 400 and never enters the transaction; the order and the inventory are unchanged.
C7_CancelRejectedUnlessCreated ==
    [][/\ \A r \in Procs :
             (req[r].pc = "idle" /\ req'[r].op = "cancel")
             => orders[req'[r].order].status = "CREATED"
       /\ (response'.op = "cancel" /\ response'.status = 400)
             => /\ orders[response'.order].status # "CREATED"
                /\ UNCHANGED <<orders, inventory>>]_vars

\* C7 witness: the cancellation of a PAID order has just been refused
C7_Witness ==
    /\ response = RespOrder("cancel", 400, 1)
    /\ orders[1].status = "PAID"

\* C8: the release of a cancellation is applied at most once per order: a
\* cancellation commits (adds the lines back) only while the order is CREATED.
C8_ReleaseAtMostOnce ==
    [][\A r \in Procs :
          CancelCommits(r) => orders[req[r].order].status = "CREATED"]_vars

\* C9: every change of an order's status is CREATED->PAID, PAID->SHIPPED or
\* CREATED->CANCELLED.
LegalTransitions ==
    {<<"CREATED", "PAID">>, <<"PAID", "SHIPPED">>, <<"CREATED", "CANCELLED">>}

C9_OnlyLegalTransitions ==
    [][\A o \in 1..Len(orders) :
          \/ orders'[o].status = orders[o].status
          \/ <<orders[o].status, orders'[o].status>> \in LegalTransitions]_vars

\* C10: an event processed after a succeeded event leaves the order PAID with
\* its paid marker and its paidAt in place, whatever the order of delivery.
C10_PaidSurvivesLaterEvents ==
    [][\A o \in 1..Len(orders) :
          (/\ orders[o].status = "PAID"
           /\ orders[o].paymentStatus = "PAID"
           /\ orders[o].paidAt # 0)
          => /\ orders'[o].status = "PAID"
             /\ orders'[o].paymentStatus = "PAID"
             /\ orders'[o].paidAt # 0]_vars

\* C11: a payment-failed webhook event records the PAYMENT_FAILED marker and
\* leaves the order's status as it was, and a CREATED order is never refused
\* payment or cancellation because of the marker.
C11_FailedEventKeepsStatus ==
    [][/\ (/\ response'.op = "webhook"
            /\ response'.event = "failed"
            /\ OrderExists(response'.order))
          => /\ response'.status = 200
             /\ orders'[response'.order].paymentStatus = "PAYMENT_FAILED"
             /\ orders'[response'.order].status = orders[response'.order].status
       /\ (response'.op \in {"pay", "cancel"} /\ response'.status = 400)
          => orders[response'.order].status # "CREATED"]_vars

\* C11 witness: a failed event has just been processed for an order that is
\* still CREATED
C11_Witness ==
    /\ response = RespHook("valid", "failed", 200, 1)
    /\ OrderExists(1)
    /\ orders[1].status = "CREATED"
    /\ orders[1].paymentStatus = "PAYMENT_FAILED"

\* C12: a webhook request whose signature does not verify is answered 4xx and
\* changes no order, whatever event and order it names; no handler step ever
\* runs for it.
C12_BadSignatureRejected ==
    [][/\ \A r \in Procs : req'[r].op # "forged"
       /\ response'.op = "forged"
             => /\ response'.status \in 400..499
                /\ UNCHANGED orders]_vars

\* C12 witness: a forged succeeded event naming an existing unpaid order has
\* just been refused
C12_Witness ==
    /\ response = RespHook("forged", "succeeded", 400, 1)
    /\ OrderExists(1)
    /\ orders[1].status = "CREATED"

\* C13: every webhook request with a valid signature is answered 200, also
\* when processing the event fails locally.
C13_VerifiedAlways200 ==
    [][response'.op = "webhook" => response'.status = 200]_vars

\* C14: when the payment-status poll and the succeeded webhook of one order
\* overlap, paidAt is assigned once: the poll's write does not replace a paidAt
\* the webhook has written, and the webhook's write does not replace a paidAt
\* the poll has written.
C14_PollAndWebhookAssignPaidAtOnce ==
    [][\A r \in Procs :
          (/\ req[r].pc \in {"pollUpdate", "whPayment"}
           /\ req'[r].pc = "idle"
           /\ orders[req[r].order].paidAt # 0
           /\ orders[req[r].order].paymentIntentId =
                  (IF req[r].pc = "pollUpdate" THEN "pi" ELSE "cs"))
          => orders'[req[r].order].paidAt = orders[req[r].order].paidAt]_vars

\* C15: two POST /orders requests of one buyer never both create an order from
\* the same cart items: an order commits only while the cart still holds the
\* items the request read.
C15_CartSpentOnce ==
    [][\A r \in Procs :
          CreateCommits(r) =>
              \A i \in 1..Len(req[r].items) :
                  LineQty(carts[req[r].buyer].items, req[r].items[i].productId)
                      >= req[r].items[i].quantity]_vars

\* C16: POST /orders of a buyer without a cart or with a cart without items is
\* answered 400 and changes nothing; a request enters the transaction only
\* with a cart that has items.
C16_EmptyCartRejected ==
    [][/\ \A r \in Procs :
             (req[r].pc = "idle" /\ req'[r].op = "create")
             => /\ carts[req'[r].buyer].exists
                /\ Len(carts[req'[r].buyer].items) > 0
       /\ (response'.op = "create" /\ response'.status = 400)
             => UNCHANGED <<orders, inventory, carts, req>>]_vars

\* C16 witness: a request has just been refused for a cart that exists and was
\* emptied by an earlier order
C16_Witness ==
    /\ response = Resp("create", 400)
    /\ carts["b1"].exists
    /\ carts["b1"].items = <<>>
    /\ Len(orders) = 1

\* C19: once Cart.orderId refers to an order, no operation makes it refer to
\* another one; stated for a cart that holds items again, so that the order
\* that replaces the reference is a further order of the buyer and not the
\* second spending of C15.
C19_CartOrderIdSetOnce ==
    [][\A b \in Buyers :
          (carts[b].orderId # 0 /\ carts[b].items # <<>>)
          => carts'[b].orderId = carts[b].orderId]_vars

\* C17: a cart item keeps the unit price the product had when the item was
\* created, an order line takes the unit price of the cart item read, and no step
\* (a price change least of all) changes a line, the subtotal or the total of
\* an existing order.
C17_LinePriceIsSnapshot ==
    [][/\ \A b \in Buyers : \A i \in 1..Len(carts'[b].items) :
             IF i <= Len(carts[b].items)
             THEN carts'[b].items[i].unitPriceCents = carts[b].items[i].unitPriceCents
             ELSE carts'[b].items[i].unitPriceCents =
                      priceCents[carts'[b].items[i].productId]
       /\ \A r \in Procs :
             CreateCommits(r) =>
                 /\ \A i \in 1..Len(req[r].items) :
                       orders'[Len(orders')].lines[i].unitPriceCents =
                           req[r].items[i].unitPriceCents
                 /\ orders'[Len(orders')].subtotalCents = SumLines(req[r].items)
       /\ \A o \in 1..Len(orders) :
             /\ orders'[o].lines = orders[o].lines
             /\ orders'[o].subtotalCents = orders[o].subtotalCents
             /\ orders'[o].totalCents = orders[o].totalCents]_vars

\* C17 witness: an order of two lines has just been created at the prices of
\* its cart items, after the prices of both products had been changed
C17_Witness ==
    /\ response = RespOrder("create", 201, 1)
    /\ Len(orders[1].lines) = 2
    /\ \A i \in 1..2 :
          /\ orders[1].lines[i].unitPriceCents = SeedPrice(orders[1].lines[i].productId)
          /\ priceCents[orders[1].lines[i].productId] = NewPriceCents

\* the POST /cart/items request of r succeeds in this step
AddCommits(r) ==
    /\ req[r].pc = "addWrite"
    /\ req'[r].pc = "idle"
    /\ response'.status = 200

\* C18: the cart holds at most one item per product, and every successful
\* POST /cart/items raises the quantity of its product in the cart by exactly
\* the quantity it adds.
C18_AddsAccumulate ==
    [][/\ \A b \in Buyers, p \in Products :
             Cardinality({i \in 1..Len(carts'[b].items) :
                             carts'[b].items[i].productId = p}) <= 1
       /\ \A r \in Procs :
             AddCommits(r) =>
                 LineQty(carts'[req[r].buyer].items, req[r].items[1].productId) =
                     LineQty(carts[req[r].buyer].items, req[r].items[1].productId)
                         + req[r].items[1].quantity]_vars

\* C20: a DELETE /products/{id} request deletes nothing of a product that has an
\* order line under a CREATED or PAID order, also when the order was created
\* while the request was running: a step of the request taken while such a line
\* exists leaves the product row, its inventory row and the cart items of the
\* product in place.
C20_NoDeletionUnderActiveOrder ==
    [][\A r \in Procs :
          ( /\ req[r].op = "deleteProduct"
            /\ req'[r] # req[r]
            /\ activeOrderLineCount(req[r].product) > 0 )
          => /\ (req[r].product \in productRows) = (req[r].product \in productRows')
             /\ (req[r].product \in inventoryRows) = (req[r].product \in inventoryRows')
             /\ \A b \in Buyers : LineQty(carts'[b].items, req[r].product)
                                    = LineQty(carts[b].items, req[r].product)]_vars

\* the second half of C20: no CREATED or PAID order has a line of a product
\* whose row is gone
ActiveLinesHaveProduct ==
    \A p \in Products : p \notin productRows => activeOrderLineCount(p) = 0

\* C21: when no order with a line of a product is CREATED or PAID (and nothing
\* else references the product), the last statement of DELETE /products/{id}
\* deletes the product row and answers 200, and the orders and their lines are
\* what they were.
C21_DeleteSucceedsWhenTerminal ==
    [][\A r \in Procs :
          ( /\ req[r].pc = "delProduct"
            /\ req'[r].pc = "idle"
            /\ req[r].product \in productRows
            /\ req[r].product \notin inventoryRows
            /\ \A b \in Buyers : LineQty(carts[b].items, req[r].product) = 0
            /\ LinesUnder(req[r].product, {"CANCELLED"}) # {}
            /\ activeOrderLineCount(req[r].product) = 0 )
          => /\ response' = Resp("deleteProduct", 200)
             /\ req[r].product \notin productRows'
             /\ orders' = orders]_vars

\* n is an integer nearest to num / den
IsNearest(n, num, den) ==
    /\ 2 * (den * n - num) <= den
    /\ 2 * (num - den * n) <= den

\* C22: for a subtotal s >= 0 calculateOrderTotal(s) returns the tax as the
\* sum of 5% of s and of 9.975% of s, each rounded to a nearest integer on its
\* own, the shipping as 1000 below 10000 and 0 from 10000 on, and the total as
\* s + tax + shipping; for 41997 the tax is 2100 + 4189 = 6289 and the shipping 0.
C22_OrderTotal ==
    calc.called =>
        LET s == calc.subtotalCents
            t == calc.out
        IN  /\ IsNearest(t.gstCents, 5 * s, 100)
            /\ IsNearest(t.qstCents, 9975 * s, 100000)
            /\ t.taxCents = t.gstCents + t.qstCents
            /\ t.shippingCents = (IF s < 10000 THEN 1000 ELSE 0)
            /\ t.totalCents = s + t.taxCents + t.shippingCents
            /\ t.subtotalCents = s
            /\ s = 41997 => /\ t.gstCents = 2100
                            /\ t.qstCents = 4189
                            /\ t.taxCents = 6289
                            /\ t.shippingCents = 0

\* C22 witness: the call with the subtotal 41997 has returned
C22_Witness ==
    /\ calc.called
    /\ calc.subtotalCents = 41997
    /\ calc.out.taxCents = 6289
    /\ calc.out.totalCents = 48286

\* a cancel, direct-pay, payment-status or checkout-session request of the
\* buyer b about the order o is handled in this step
OrderRequest(b, o) ==
    \/ \E r \in Procs : CancelRead(r, b, o)
    \/ \E r \in Procs : PayRead(r, b, o)
    \/ \E r \in Procs : PollRead(r, b, o)
    \/ CheckoutSession(b, o)

\* C23: a cancel, direct-pay, payment-status or checkout-session request of a
\* buyer who does not own the order is answered 403, and one about a missing
\* order 404; either way the orders, the inventory, the provider's sessions
\* and the requests in flight are what they were.
C23_NonOwnerRejected ==
    [][\A b \in Buyers, o \in OrderIds :
          ( /\ OrderRequest(b, o)
            /\ ~OrderExists(o) \/ orders[o].buyerId # b )
          => /\ response'.status = (IF OrderExists(o) THEN 403 ELSE 404)
             /\ orders' = orders
             /\ inventory' = inventory
             /\ session' = session
             /\ req' = req]_vars

\* C23 witness: the other buyer has just been refused on a CREATED order
C23_Witness ==
    /\ Len(orders) = 1
    /\ orders[1].buyerId = "b1"
    /\ orders[1].status = "CREATED"
    /\ response = RespOrder("cancel", 403, 1)

\* the requests of the payment paths: the direct pay endpoint, the
\* payment-status poll and the webhook, whoever signed it
PaymentOps == {"pay", "poll", "webhook", "forged"}

\* a step of a request of the payment paths
PaymentStep ==
    \/ response'.op \in PaymentOps
    \/ \E r \in Procs : /\ req'[r] # req[r]
                        /\ req[r].op \in PaymentOps \/ req'[r].op \in PaymentOps

\* C24: no step of a webhook request, of a payment-status poll or of a direct
\* pay request changes the quantity or the existence of an inventory row,
\* whatever was processed before it.
C24_PaymentKeepsStock ==
    [][PaymentStep => /\ inventory' = inventory
                      /\ inventoryRows' = inventoryRows]_vars

\* C24 witness: a succeeded event has been processed for an order, and the
\* stock is what the creation of the order left
C24_Witness ==
    /\ Len(orders) = 1
    /\ orders[1].status = "PAID"
    /\ orders[1].paymentStatus = "PAID"
    /\ response.op = "webhook"
    /\ response.event = "succeeded"
    /\ response.status = 200
    /\ inventory["p1"] = InitStock - LineQty(orders[1].lines, "p1")
    /\ inventory["p1"] < InitStock

\* C25: the page back from the checkout issues at most 10
\* payment-status requests, one per firing of the interval; a response that
\* reports PAID and the tenth firing both end the polling, no request is
\* issued after either, and the interval is cleared in the end whatever the
\* responses say.
C25_PollStopsOnPaid ==
    /\ [](client.issued <= 10)
    /\ [][client'.issued # client.issued =>
             /\ client'.issued = client.issued + 1
             /\ client.paymentCheckLoading
             /\ client.last # "PAID"
             /\ client.issued = 9 => ~client'.paymentCheckLoading]_vars
    /\ [][(client'.last = "PAID" /\ client'.waiting # client.waiting) =>
             ~client'.paymentCheckLoading /\ ~client'.interval]_vars
    /\ [][~client.paymentCheckLoading /\ client.opened =>
             ~client'.paymentCheckLoading /\ ~client'.interval]_vars
    /\ (client.opened ~> ~client.interval)

\* what holds of the polling: the same, but a response that reports PAID ends
\* the polling only when its handling did not throw before; a PAID response
\* with updated true whose fetch of the order throws leaves the interval
\* running until the next PAID response or the tenth firing.
PollTerminates ==
    /\ [](client.issued <= 10)
    /\ [][client'.issued # client.issued =>
             /\ client'.issued = client.issued + 1
             /\ client.paymentCheckLoading
             /\ client.last = "PAID" => client.threw
             /\ client.issued = 9 => ~client'.paymentCheckLoading]_vars
    /\ [][(client'.last = "PAID" /\ ~client'.threw /\ client'.waiting # client.waiting) =>
             ~client'.paymentCheckLoading /\ ~client'.interval]_vars
    /\ [][~client.paymentCheckLoading /\ client.opened =>
             ~client'.paymentCheckLoading /\ ~client'.interval]_vars
    /\ (client.opened ~> ~client.interval)

\* ten requests went out without a PAID response, the polling has stopped, and
\* responses are still to come
PollGaveUp ==
    /\ client.issued = 10
    /\ client.last = "unpaid"
    /\ client.waiting > 0
    /\ ~client.interval
    /\ ~client.paymentCheckLoading

\* C26: the step that answers a POST /orders with 201 appends an order of the
\* buyer with status CREATED whose lines are the cart items the request read,
\* one line per item with its productId, quantity and unit price, and leaves
\* the buyer's cart without items; a POST /orders of a buyer whose cart an
\* order has emptied is answered 400 and starts nothing.
C26_OrderMirrorsCart ==
    [][/\ \A r \in Procs :
             ( /\ req[r].pc = "commit"
               /\ req'[r].pc = "idle"
               /\ response'.op = "create"
               /\ response'.status = 201 )
             => /\ Len(orders') = Len(orders) + 1
                /\ response'.order = Len(orders')
                /\ LET o == orders'[Len(orders')]
                       items == req[r].items
                   IN  /\ o.status = "CREATED"
                       /\ o.buyerId = req[r].buyer
                       /\ Len(o.lines) = Len(items)
                       /\ \A i \in 1..Len(items) :
                             /\ o.lines[i].productId = items[i].productId
                             /\ o.lines[i].quantity = items[i].quantity
                             /\ o.lines[i].unitPriceCents = items[i].unitPriceCents
                /\ carts'[req[r].buyer].items = <<>>
       /\ \A r \in Procs, b \in Buyers :
             ( /\ \E cap \in 1..(MaxOrders + 1) : OrderReadCart(r, b, cap)
               /\ carts[b].orderId # 0
               /\ carts[b].items = <<>> )
             => response' = Resp("create", 400) /\ req' = req]_vars

\* C26 witness: an order of two lines has just been created from a cart of two
\* items, and the cart is empty
C26_Witness ==
    /\ response = RespOrder("create", 201, 1)
    /\ Len(orders) = 1
    /\ Len(orders[1].lines) = 2
    /\ orders[1].lines[1].productId # orders[1].lines[2].productId
    /\ carts["b1"].items = <<>>
    /\ carts["b1"].orderId = 1

\* C27: in every state an order whose status is PAID has a paidAt: whatever
\* moves an order to PAID sets it, and nothing clears it afterwards.
C27_PaidHasPaidAt ==
    \A o \in 1..Len(orders) : orders[o].status = "PAID" => orders[o].paidAt # 0

\* the quantity of the product p that the orders not CANCELLED hold
RECURSIVE HeldBy(_, _)
HeldBy(os, p) ==
    IF os = <<>> THEN 0
    ELSE (IF Head(os).status # "CANCELLED" THEN LineQty(Head(os).lines, p) ELSE 0)
         + HeldBy(Tail(os), p)

\* C28: with no stock edit and no product deletion, in every state and for
\* every product the inventory quantity plus the line quantities of the
\* product over the orders that are not CANCELLED is the initial stock.
C28_StockConserved ==
    \A p \in Products : inventory[p] + HeldBy(orders, p) = InitStock

\* C29: every cart item that the commit of a POST /orders removes from the cart
\* is a line of the order it creates, with the quantity the cart held: nothing
\* that reached the cart after the request read it is deleted unordered.
C29_RemovedItemsAreOrdered ==
    [][\A r \in Procs :
          CreateCommits(r) =>
              \A p \in Products :
                  LineQty(carts[req[r].buyer].items, p) # 0 =>
                      LineQty(orders'[Len(orders')].lines, p)
                          = LineQty(carts[req[r].buyer].items, p)]_vars

\* C30: a DELETE /products/{id} that fails leaves the inventory row and the
\* cart items of the product as they were. Stated for the refusal of the last
\* statement because of order lines: only the statements of a delete request
\* remove an inventory row, every product starts with one, and the statement
\* before the last has removed the cart items, so after the failing step the
\* product still has its inventory row.
C30_FailedDeleteKeepsRows ==
    [][\A r \in Procs :
          ( /\ req[r].pc = "delProduct"
            /\ req'[r].pc = "idle"
            /\ response' = Resp("deleteProduct", 500)
            /\ LinesUnder(req[r].product, {"CREATED", "PAID", "CANCELLED"}) # {} )
          => req[r].product \in inventoryRows']_vars

====
